---- MODULE Spec2Model ----
(***************************************************************************)
(* A model of sop_parser.py: the SOP document parser (format_history,      *)
(* parse_block, parse_sop, extract_filenames).                             *)
(*                                                                         *)
(* Python strings are modelled as sequences of one-character strings, so   *)
(* that strip, split, startswith and the regular expressions are computed  *)
(* as the interpreter computes them.  An exception is a record naming the  *)
(* exception class, the source line that raises it and the values put in   *)
(* its message.                                                            *)
(***************************************************************************)
EXTENDS Integers, Sequences, FiniteSets, TLC

VARIABLES
    pc,           \* position of the running call
    hist_line,    \* format_history: its argument
    hist_ret,     \* format_history: what the call produced
    segment,      \* preamble parser: blocks[0]
    meta_ret,     \* preamble parser: what dict(...) produced
    block_type,   \* parse_block: header_parts['type'].strip()
    block_name,   \* parse_block: header_parts['name'].strip()
    lines,        \* parse_block: the body lines the loop has consumed so far
    attributes,   \* parse_block: the block's attribute dict
    subsections,  \* parse_block: the list of subsection dicts
    cur_subsec,   \* parse_block: index in subsections of cur_subsec, 0 for None
    cur_attr,     \* parse_block: assigned None at line 66 and never again
    target,       \* parse_block: the dict `target` refers to, or unbound
    cur_key,      \* parse_block: the local cur_key, or unbound
    block_ret,    \* parse_block: what the call produced
    fp,           \* parse_sop / extract_filenames argument
    filename,     \* parse_sop / extract_filenames argument
    fp_text,      \* the text fp.read() returns
    fulltext,     \* parse_sop: the local fulltext once a read has assigned it
    sop_ret,      \* what parse_sop produced inside extract_filenames
    bi,           \* extract_filenames: index of the block being walked
    si,           \* extract_filenames: index of the next subsection in it
    out           \* extract_filenames: the records yielded so far

vars == <<pc, hist_line, hist_ret, segment, meta_ret, block_type, block_name,
          lines, attributes, subsections, cur_subsec, cur_attr, target,
          cur_key, block_ret, fp, filename, fp_text, fulltext, sop_ret, bi, si,
          out>>

histVars == <<hist_line, hist_ret>>
preVars == <<segment, meta_ret>>
blockVars == <<block_type, block_name, lines, attributes, subsections,
               cur_subsec, cur_attr, target, cur_key, block_ret>>
sopVars == <<fp, filename, fp_text, fulltext, sop_ret, bi, si, out>>

-----------------------------------------------------------------------------
(* Bounds of the model.                                                    *)

MaxHistLen == 6

MaxPreLines == 3

MaxBodyLines == 4

MaxChunks == 4

MaxBlocks == 3

-----------------------------------------------------------------------------
(* Python values.                                                          *)

None == "None"

\* a local variable that no assignment has reached yet, and one that holds v
Unbound == <<>>

Bound(v) == <<v>>

\* os.linesep on the platform the parser runs on
linesep == <<"\n">>

\* the characters str.strip() removes when called without an argument
Whitespace == {" ", "\t", "\n", "\r", "\f"}

EmptyDict == [k \in {} |-> <<>>]

DictSet(d, k, v) == [x \in DOMAIN d \cup {k} |-> IF x = k THEN v ELSE d[x]]

Returned(v) == [exc |-> "none", at |-> 0, args |-> <<>>, value |-> v]

Raised(e, l, a) == [exc |-> e, at |-> l, args |-> a, value |-> None]

Pending == [exc |-> "pending", at |-> 0, args |-> <<>>, value |-> None]

-----------------------------------------------------------------------------
(* String operations.                                                      *)

startswith(s, p) == Len(s) >= Len(p) /\ SubSeq(s, 1, Len(p)) = p

\* s.strip(chars): the characters of `chars` removed from both ends
strip(s, chars) ==
    LET keep == {i \in 1..Len(s) : s[i] \notin chars}
    IN  IF keep = {} THEN <<>>
        ELSE SubSeq(s, CHOOSE i \in keep : \A j \in keep : i <= j,
                       CHOOSE i \in keep : \A j \in keep : i >= j)

\* index of the first occurrence of character c in s at or after from, 0 if none
find(s, c, from) ==
    LET hits == {i \in from..Len(s) : s[i] = c}
    IN  IF hits = {} THEN 0 ELSE CHOOSE i \in hits : \A j \in hits : i <= j

\* s.split(c, maxsplit): at most maxsplit cuts, left to right
RECURSIVE split(_, _, _)
split(s, c, maxsplit) ==
    LET i == find(s, c, 1)
    IN  IF maxsplit = 0 \/ i = 0 THEN <<s>>
        ELSE <<SubSeq(s, 1, i - 1)>> \o split(SubSeq(s, i + 1, Len(s)), c, maxsplit - 1)

\* sep.join(parts)
RECURSIVE join(_, _)
join(sep, parts) ==
    IF parts = <<>> THEN <<>>
    ELSE IF Len(parts) = 1 THEN parts[1]
    ELSE parts[1] \o sep \o join(sep, Tail(parts))

\* re.split(r'\r?\n', s)
RECURSIVE split_lines(_)
split_lines(s) ==
    LET n == find(s, "\n", 1)
        cut == IF n > 1 /\ s[n - 1] = "\r" THEN n - 2 ELSE n - 1
    IN  IF n = 0 THEN <<s>>
        ELSE <<SubSeq(s, 1, cut)>> \o split_lines(SubSeq(s, n + 1, Len(s)))

-----------------------------------------------------------------------------
(* format_history                                                          *)

format_history(line) ==
    LET parts == split(strip(line, {"-", " "}), ";", 3)
    IN  IF Len(parts) # 3
        THEN Raised("ParseException", 33, <<Len(parts), line>>)
        ELSE Returned([version |-> parts[1], date |-> parts[2], description |-> parts[3]])

-----------------------------------------------------------------------------
(* parse_block                                                             *)

PROCESS_BLOCKS == {<<"A", "n", "a", "l", "y", "s", "i", "s">>, <<"Q", "u", "a", "l", "i", "t", "y", " ", "c", "o", "n", "t", "r", "o", "l">>}

FREETEXT_BLOCKS == {<<"I", "n", "t", "r", "o", "d", "u", "c", "t", "i", "o", "n">>, <<"L", "i", "t", "e", "r", "a", "t", "u", "r", "e">>}

\* x.strip() != ''
nonblank(x) == strip(x, Whitespace) # <<>>

\* re.match(r'^# (?P<type>[^:]+):(?P<name>.*)$', line): [^:]+ needs one character
\* at least before the first colon; '.' matches no line break and '$' matches at
\* the end or before a final line break.
header_colon(line) == find(line, ":", 3)

header_match(line) ==
    /\ startswith(line, <<"#", " ">>)
    /\ header_colon(line) >= 4
    /\ \A i \in (header_colon(line) + 1)..(Len(line) - 1) : line[i] # "\n"

header_type(line) == strip(SubSeq(line, 3, header_colon(line) - 1), Whitespace)

header_name(line) == strip(SubSeq(line, header_colon(line) + 1, Len(line)), Whitespace)

\* the locals of parse_block as the loop over lines[1:] starts (lines 60-66)
loop_start(type, name) ==
    [block_type |-> type, block_name |-> name, attributes |-> EmptyDict,
     subsections |-> <<>>, cur_subsec |-> 0, cur_attr |-> None,
     target |-> Unbound, cur_key |-> Unbound, exc |-> Pending]

\* the dict that `target` refers to: 0 is the block's attributes, k > 0 the
\* attributes of subsections[k]
target_dict(st) ==
    IF st.target[1] = 0 THEN st.attributes ELSE st.subsections[st.target[1]].attributes

\* target[key] = val, through the reference
target_store(st, key, val) ==
    IF st.target[1] = 0
    THEN [st EXCEPT !.attributes = DictSet(@, key, val)]
    ELSE [st EXCEPT !.subsections[st.target[1]].attributes = DictSet(@, key, val)]

\* lines 70-79: a line that starts with '- '
attr_line(st, line) ==
    LET parts == split(line, ":", 1)
        key == strip(SubSeq(parts[1], 3, Len(parts[1])), Whitespace)
        val == strip(parts[2], Whitespace)
        bound == [st EXCEPT !.target = Bound(st.cur_subsec), !.cur_key = Bound(key)]
    IN  IF Len(parts) # 2
        THEN [st EXCEPT !.exc = Raised("ValueError", 70, <<line>>)]
        ELSE target_store(bound, key, val)

\* lines 83-88: a line that starts with '## '
subsec_line(st, line) ==
    IF startswith(line, <<"#", "#", " ", "N", "o", "t", " ", "u", "p", "l", "o", "a", "d", "e", "d", ":">>) THEN st
    ELSE [st EXCEPT
            !.subsections = Append(@, [name |-> strip(SubSeq(line, 4, Len(line)), Whitespace),
                                       attributes |-> EmptyDict]),
            !.cur_subsec = Len(st.subsections) + 1]

\* lines 91-99: any other line.  Reading `target` or `cur_key` before an attribute
\* line has assigned them raises UnboundLocalError; a dict is true when it holds a
\* key, a string when it is not empty.
cont_line(st, line) ==
    IF st.target = Unbound
    THEN [st EXCEPT !.exc = Raised("UnboundLocalError", 91, <<"target">>)]
    ELSE IF DOMAIN target_dict(st) = {}
    THEN [st EXCEPT !.exc = Raised("ParseException", 98, <<st.block_type, st.block_name, line>>)]
    ELSE IF st.cur_key = Unbound
    THEN [st EXCEPT !.exc = Raised("UnboundLocalError", 91, <<"cur_key">>)]
    ELSE IF st.cur_key[1] = <<>>
    THEN [st EXCEPT !.exc = Raised("ParseException", 98, <<st.block_type, st.block_name, line>>)]
    ELSE LET old == target_dict(st)[st.cur_key[1]]
         IN  target_store(st, st.cur_key[1],
                          old \o (IF old # <<>> THEN linesep ELSE <<>>) \o strip(line, Whitespace))

\* the body of the loop at line 68
loop_body(st, line) ==
    IF startswith(line, <<"-", " ">>) THEN attr_line(st, line)
    ELSE IF startswith(line, <<"#", "#", " ">>) THEN subsec_line(st, line)
    ELSE cont_line(st, line)

\* re.match(r'.*_files.txt$', name): the '.' before txt is unescaped
files_txt_match(name) ==
    \E e \in {Len(name)} \cup {n \in {Len(name) - 1} : n >= 0 /\ name[n + 1] = "\n"} :
        /\ e >= 10
        /\ SubSeq(name, e - 9, e - 4) = <<"_", "f", "i", "l", "e", "s">>
        /\ SubSeq(name, e - 2, e) = <<"t", "x", "t">>
        /\ \A i \in 1..(e - 3) : name[i] # "\n"

\* lines 102-115: the check of the file lists, then the block
check_and_return(st) ==
    LET bad == {i \in 1..Len(st.subsections) :
                    /\ <<"T", "y", "p", "e">> \in DOMAIN st.subsections[i].attributes
                    /\ st.subsections[i].attributes[<<"T", "y", "p", "e">>] = <<"f", "i", "l", "e", " ", "l", "i", "s", "t">>
                    /\ ~files_txt_match(st.subsections[i].name)}
        first == CHOOSE i \in bad : \A j \in bad : i <= j
    IN  IF bad # {}
        THEN Raised("ParseException", 105,
                    <<st.block_type, st.block_name, st.subsections[first].name>>)
        ELSE Returned([type |-> st.block_type, name |-> st.block_name,
                       attributes |-> st.attributes, items |-> st.subsections])

\* the loop at line 68 over the lines that are left
RECURSIVE loop(_, _)
loop(st, rest) ==
    IF rest = <<>> \/ st.exc.exc # "pending" THEN st
    ELSE loop(loop_body(st, Head(rest)), Tail(rest))

\* lines 120-128: the list comprehension over format_history, and the re-raise
RECURSIVE history_items(_)
history_items(rest) ==
    IF rest = <<>> THEN Returned(<<>>)
    ELSE LET h == format_history(Head(rest))
             t == history_items(Tail(rest))
         IN  IF h.exc # "none" THEN Raised("ParseException", 128, <<<<"H", "i", "s", "t", "o", "r", "y">>, h.args>>)
             ELSE IF t.exc # "none" THEN t
             ELSE Returned(<<h.value>> \o t.value)

parse_block(block_str) ==
    LET ls == SelectSeq(split_lines(block_str), nonblank)
        type == header_type(ls[1])
        name == header_name(ls[1])
        done == loop(loop_start(type, name), Tail(ls))
        hist == history_items(Tail(ls))
    IN  IF ls = <<>> THEN Raised("IndexError", 42, <<>>)
        ELSE IF ~header_match(ls[1]) THEN Raised("ParseException", 44, <<ls[1]>>)
        ELSE IF type \in FREETEXT_BLOCKS
        THEN Returned([type |-> type, text |-> join(linesep, Tail(ls))])
        ELSE IF type \in PROCESS_BLOCKS
        THEN (IF done.exc.exc # "pending" THEN done.exc ELSE check_and_return(done))
        ELSE IF type = <<"H", "i", "s", "t", "o", "r", "y">>
        THEN (IF hist.exc # "none" THEN hist ELSE Returned([type |-> type, items |-> hist.value]))
        ELSE Raised("ParseException", 131, <<type>>)

-----------------------------------------------------------------------------
(* parse_sop                                                               *)

\* the truth value Python gives an argument: None and '' are false
truthy(x) == x \notin {None, ""}

\* re.sub(r'<!--.*?-->', '', s, flags=re.S): leftmost opener, nearest closer after
\* it, and the search goes on behind the closer
RECURSIVE strip_comments(_)
strip_comments(s) ==
    LET opens == {i \in 1..(Len(s) - 3) : SubSeq(s, i, i + 3) = <<"<", "!", "-", "-">>}
        o == CHOOSE i \in opens : \A j \in opens : i <= j
        closes == {i \in (o + 4)..(Len(s) - 2) : SubSeq(s, i, i + 2) = <<"-", "-", ">">>}
        c == CHOOSE i \in closes : \A j \in closes : i <= j
    IN  IF opens = {} THEN s
        ELSE IF closes = {} THEN s
        ELSE SubSeq(s, 1, o - 1) \o strip_comments(SubSeq(s, c + 3, Len(s)))

\* length of the match of \r?\n at position i, 0 when there is none
nl_at(s, i) ==
    IF i <= Len(s) /\ s[i] = "\n" THEN 1
    ELSE IF i + 1 <= Len(s) /\ s[i] = "\r" /\ s[i + 1] = "\n" THEN 2
    ELSE 0

\* the position behind the longest run of \r?\n that starts at i
RECURSIVE nl_run_end(_, _)
nl_run_end(s, i) == IF nl_at(s, i) = 0 THEN i ELSE nl_run_end(s, i + nl_at(s, i))

\* re.split(r'(\r?\n)(\r?\n)+', s): the pieces, and after each the two groups of
\* the separator (its first line break and its last)
RECURSIVE split_blank_lines(_)
split_blank_lines(s) ==
    LET seps == {i \in 1..Len(s) : nl_at(s, i) > 0 /\ nl_at(s, i + nl_at(s, i)) > 0}
        i == CHOOSE x \in seps : \A y \in seps : x <= y
        e == nl_run_end(s, i)
        g1 == SubSeq(s, i, i + nl_at(s, i) - 1)
        g2 == IF e - 2 >= i + nl_at(s, i) /\ s[e - 2] = "\r"
              THEN SubSeq(s, e - 2, e - 1) ELSE SubSeq(s, e - 1, e - 1)
    IN  IF seps = {} THEN <<s>>
        ELSE <<SubSeq(s, 1, i - 1), g1, g2>> \o split_blank_lines(SubSeq(s, e, Len(s)))

\* line 163
split_blocks(text) == SelectSeq(split_blank_lines(text), nonblank)

\* bit.strip('# ') for bit in line.split(':', 1)
RECURSIVE strip_bits(_)
strip_bits(bits) ==
    IF bits = <<>> THEN <<>>
    ELSE <<strip(Head(bits), {"#", " "})>> \o strip_bits(Tail(bits))

preamble_bits(line) == strip_bits(split(line, ":", 1))

\* dict(...) over the pairs, one update per line; a line with no colon gives one
\* bit only, which dict() refuses with ValueError
RECURSIVE dict_update(_, _)
dict_update(d, ls) ==
    IF ls = <<>> THEN Returned(d)
    ELSE LET bits == preamble_bits(Head(ls))
         IN  IF Len(bits) # 2 THEN Raised("ValueError", 166, <<Head(ls)>>)
             ELSE dict_update(DictSet(d, bits[1], bits[2]), Tail(ls))

\* lines 166-169
parse_preamble(seg) == dict_update(EmptyDict, split_lines(seg))

\* line 173: the blocks in order; the first that raises ends the call
RECURSIVE parse_blocks(_)
parse_blocks(bs) ==
    IF bs = <<>> THEN Returned(<<>>)
    ELSE LET b == parse_block(Head(bs))
             t == parse_blocks(Tail(bs))
         IN  IF b.exc # "none" THEN b
             ELSE IF t.exc # "none" THEN t
             ELSE Returned(<<b.value>> \o t.value)

\* lines 157-174
parse_text(text) ==
    LET blocks == split_blocks(strip_comments(text))
        preamble == parse_preamble(blocks[1])
        parsed == parse_blocks(Tail(blocks))
    IN  IF blocks = <<>> THEN Raised("IndexError", 168, <<>>)
        ELSE IF preamble.exc # "none" THEN preamble
        ELSE IF parsed.exc # "none" THEN parsed
        ELSE Returned([meta |-> preamble.value, blocks |-> parsed.value])

\* lines 144-150: which input the call reads
opened(f, name) ==
    IF truthy(f) /\ ~truthy(name) THEN "fp"
    ELSE IF truthy(name) /\ truthy(f) THEN "file"
    ELSE "none"

\* the file system: the text of the file a path names
FilePath == "sop.md"

FileText == <<"#", " ", "F", ":", " ", "y">>

\* lines 145 and 148: what the read assigns to fulltext
read_text(f, name, text) ==
    IF opened(f, name) = "fp" THEN Bound(text)
    ELSE IF opened(f, name) = "file" THEN Bound(FileText)
    ELSE Unbound

parse_sop(f, name, text) ==
    IF read_text(f, name, text) = Unbound THEN Raised("ValueError", 150, <<>>)
    ELSE parse_text(read_text(f, name, text)[1])

-----------------------------------------------------------------------------
(* extract_filenames                                                       *)

\* file_record as it would be with '' instead of '.' as the default of Location:
\* a faulty variant, used to test C3
file_record_empty_default(subsec) ==
    [name |-> subsec.name,
     location |-> IF <<"L", "o", "c", "a", "t", "i", "o", "n">> \in DOMAIN subsec.attributes
                  THEN subsec.attributes[<<"L", "o", "c", "a", "t", "i", "o", "n">>] ELSE <<>>,
     format |-> IF <<"F", "o", "r", "m", "a", "t">> \in DOMAIN subsec.attributes
                THEN subsec.attributes[<<"F", "o", "r", "m", "a", "t">>] ELSE <<>>]

\* lines 192-196
file_record(subsec) ==
    [name |-> subsec.name,
     location |-> IF <<"L", "o", "c", "a", "t", "i", "o", "n">> \in DOMAIN subsec.attributes
                  THEN subsec.attributes[<<"L", "o", "c", "a", "t", "i", "o", "n">>] ELSE <<".">>,
     format |-> IF <<"F", "o", "r", "m", "a", "t">> \in DOMAIN subsec.attributes
                THEN subsec.attributes[<<"F", "o", "r", "m", "a", "t">>] ELSE <<>>]

\* line 190
is_process(block) == block.type \in PROCESS_BLOCKS

\* lines 189-191: the block the two loops stand in when the next record is asked
\* for, from block b and its subsection s on; 0 when the loops are over
next_block(blocks, b, s) ==
    LET ok == {x \in b..Len(blocks) :
                  /\ is_process(blocks[x])
                  /\ Len(blocks[x].items) >= (IF x = b THEN s ELSE 1)}
    IN  IF ok = {} THEN 0 ELSE CHOOSE x \in ok : \A y \in ok : x <= y

-----------------------------------------------------------------------------
(* The inputs the specifications draw from.                                *)

\* every sequence of at most n elements of S
SeqsUpTo(S, n) == UNION {[1..k -> S] : k \in 0..n}

HistAlphabet == {"-", " ", ";", "a"}

HistLines == SeqsUpTo(HistAlphabet, MaxHistLen)

PreLinePool ==
    {<<"#", " ", "a", ":", " ", "b">>, <<"#", " ", "a", ":", " ", "c">>, <<"#", " ", "b", ":", " ", "c", ":", "d">>, <<"#", " ", "L", ":", " ", "C", "#">>, <<"#", " ", " ", "b", " ", ":", " ", " ", "e", " ">>, <<"#", " ", "T">>}

PreSegments == {join(<<"\n">>, ls) : ls \in SeqsUpTo(PreLinePool, MaxPreLines) \ {<<>>}}

\* body lines of a process block: none is blank, none holds a line break
LinePool ==
    {<<"-", " ", "T", "y", "p", "e", ":", " ", "f", "i", "l", "e", " ", "l", "i", "s", "t">>, <<"-", " ", "k", ":", " ", "v">>, <<"-", " ", "k">>, <<"-", " ", ":", " ", "v">>,
     <<"#", "#", " ", "a", "_", "f", "i", "l", "e", "s", ".", "t", "x", "t">>, <<"#", "#", " ", "a", "_", "f", "i", "l", "e", "s", "x", "t", "x", "t">>, <<"#", "#", " ", "b">>,
     <<"#", "#", " ", "N", "o", "t", " ", "u", "p", "l", "o", "a", "d", "e", "d", ":", " ", "c">>, <<"#", "#", " ", " ", "N", "o", "t", " ", "u", "p", "l", "o", "a", "d", "e", "d", ":", " ", "c">>, <<"m", "o", "r", "e">>}

SyntaxChunks == {<<"#", " ", "T", ":", " ", "x">>, <<"#", " ", "T">>, <<"\n", "\n">>, <<" ", "\r", "\n">>, <<"<", "!", "-", "-">>, <<"-", "-", ">">>}

BlockChunks ==
    {<<"\n", "\n", "#", " ", "A", "n", "a", "l", "y", "s", "i", "s", ":", " ", "A", "\n", "-", " ", "L", "o", "c", "a", "t", "i", "o", "n", ":", " ", "d", "\n", "#", "#", " ", "f", "\n", "-", " ", "L", "o", "c", "a", "t", "i", "o", "n", ":", " ", "r", "\n", "-", " ", "F", "o", "r", "m", "a", "t", ":", " ", "t", "\n", "#", "#", " ", "g">>,
     <<"\n", "\n", "#", " ", "Q", "u", "a", "l", "i", "t", "y", " ", "c", "o", "n", "t", "r", "o", "l", ":", " ", "Q", "\n", "#", "#", " ", "h", "\n", "-", " ", "F", "o", "r", "m", "a", "t", ":", " ", "c", "\n", "#", "#", " ", "N", "o", "t", " ", "u", "p", "l", "o", "a", "d", "e", "d", ":", " ", "n", "\n", "-", " ", "L", "o", "c", "a", "t", "i", "o", "n", ":", " ", "e">>,
     <<"\n", "\n", "#", " ", "H", "i", "s", "t", "o", "r", "y", ":", " ", "H", "\n", "-", " ", "1", ";", "d", ";", "x">>,
     <<"\n", "\n", "#", " ", "I", "n", "t", "r", "o", "d", "u", "c", "t", "i", "o", "n", ":", " ", "I", "\n", "#", "#", " ", "z">>}

Docs ==
    {join(<<>>, cs) : cs \in SeqsUpTo(SyntaxChunks, MaxChunks)}
    \cup {<<"#", " ", "T", ":", " ", "x">> \o join(<<>>, bs) : bs \in SeqsUpTo(BlockChunks, MaxBlocks)}

-----------------------------------------------------------------------------
(* The variables a specification does not use stay as they are here.       *)

HistIdle == hist_line = <<>> /\ hist_ret = Pending

PreIdle == segment = <<>> /\ meta_ret = Pending

BlockIdle ==
    /\ block_type = <<>> /\ block_name = <<>> /\ lines = <<>>
    /\ attributes = EmptyDict /\ subsections = <<>> /\ cur_subsec = 0
    /\ cur_attr = None /\ target = Unbound /\ cur_key = Unbound
    /\ block_ret = Pending

SopIdle ==
    /\ fp = None /\ filename = None /\ fp_text = <<>> /\ fulltext = Unbound
    /\ sop_ret = Pending /\ bi = 0 /\ si = 0 /\ out = <<>>

-----------------------------------------------------------------------------
(* SpecHistory: one call of format_history.                                *)

InitHistory ==
    /\ pc = "call"
    /\ hist_line \in HistLines
    /\ hist_ret = Pending
    /\ PreIdle /\ BlockIdle /\ SopIdle

FormatHistory ==
    /\ pc = "call"
    /\ hist_ret' = format_history(hist_line)
    /\ pc' = "done"
    /\ UNCHANGED <<hist_line, preVars, blockVars, sopVars>>

NextHistory == FormatHistory

SpecHistory == InitHistory /\ [][NextHistory]_vars

-----------------------------------------------------------------------------
(* SpecPreamble: the preamble parser of parse_sop on one first segment.    *)

InitPreamble ==
    /\ pc = "call"
    /\ segment \in PreSegments
    /\ meta_ret = Pending
    /\ HistIdle /\ BlockIdle /\ SopIdle

ParsePreamble ==
    /\ pc = "call"
    /\ meta_ret' = parse_preamble(segment)
    /\ pc' = "done"
    /\ UNCHANGED <<segment, histVars, blockVars, sopVars>>

NextPreamble == ParsePreamble

SpecPreamble == InitPreamble /\ [][NextPreamble]_vars

-----------------------------------------------------------------------------
(* SpecBlock: parse_block on a process block, one body line per step, from *)
(* the state in which the loop at line 68 starts.                          *)

InitBlock ==
    /\ pc = "loop"
    /\ block_type \in PROCESS_BLOCKS
    /\ block_name = <<"A">>
    /\ lines = <<>>
    /\ attributes = EmptyDict /\ subsections = <<>> /\ cur_subsec = 0
    /\ cur_attr = None /\ target = Unbound /\ cur_key = Unbound
    /\ block_ret = Pending
    /\ HistIdle /\ PreIdle /\ SopIdle

\* the locals of the running call
locals ==
    [block_type |-> block_type, block_name |-> block_name, attributes |-> attributes,
     subsections |-> subsections, cur_subsec |-> cur_subsec, cur_attr |-> cur_attr,
     target |-> target, cur_key |-> cur_key, exc |-> Pending]

\* one pass of the loop has read `line` and left the locals as in st
Pass(st, line) ==
    /\ lines' = Append(lines, line)
    /\ attributes' = st.attributes
    /\ subsections' = st.subsections
    /\ cur_subsec' = st.cur_subsec
    /\ cur_attr' = st.cur_attr
    /\ target' = st.target
    /\ cur_key' = st.cur_key
    /\ block_ret' = st.exc
    /\ pc' = IF st.exc.exc = "pending" THEN "loop" ELSE "done"
    /\ UNCHANGED <<block_type, block_name, histVars, preVars, sopVars>>

AttrLine ==
    /\ pc = "loop" /\ Len(lines) < MaxBodyLines
    /\ \E line \in LinePool :
        /\ startswith(line, <<"-", " ">>)
        /\ Pass(attr_line(locals, line), line)

SubsecLine ==
    /\ pc = "loop" /\ Len(lines) < MaxBodyLines
    /\ \E line \in LinePool :
        /\ ~startswith(line, <<"-", " ">>) /\ startswith(line, <<"#", "#", " ">>)
        /\ Pass(subsec_line(locals, line), line)

ContLine ==
    /\ pc = "loop" /\ Len(lines) < MaxBodyLines
    /\ \E line \in LinePool :
        /\ ~startswith(line, <<"-", " ">>) /\ ~startswith(line, <<"#", "#", " ">>)
        /\ Pass(cont_line(locals, line), line)

\* the lines are exhausted
ReturnBlock ==
    /\ pc = "loop"
    /\ block_ret' = check_and_return(locals)
    /\ pc' = "done"
    /\ UNCHANGED <<block_type, block_name, lines, attributes, subsections, cur_subsec,
                   cur_attr, target, cur_key, histVars, preVars, sopVars>>

NextBlock == AttrLine \/ SubsecLine \/ ContLine \/ ReturnBlock

SpecBlock == InitBlock /\ [][NextBlock]_vars

-----------------------------------------------------------------------------
(* SpecSop: extract_filenames, a generator: its first step runs parse_sop, *)
(* every later step yields one record or ends the generator.               *)

InitSop ==
    /\ pc = "start"
    /\ fp \in {None, "handle"}
    /\ filename \in {None, FilePath}
    /\ fp_text \in Docs
    /\ fulltext = Unbound
    /\ sop_ret = Pending
    /\ bi = 0 /\ si = 0 /\ out = <<>>
    /\ HistIdle /\ PreIdle /\ BlockIdle

\* line 187
ParseSop ==
    /\ pc = "start"
    /\ fulltext' = read_text(fp, filename, fp_text)
    /\ sop_ret' = parse_sop(fp, filename, fp_text)
    /\ pc' = IF sop_ret'.exc = "none" THEN "walk" ELSE "raised"
    /\ bi' = 1 /\ si' = 1
    /\ UNCHANGED <<fp, filename, fp_text, out, histVars, preVars, blockVars>>

\* lines 189-196: the loops run on to the next subsection and yield its record
YieldRecord ==
    /\ pc = "walk"
    /\ next_block(sop_ret.value.blocks, bi, si) # 0
    /\ LET b == next_block(sop_ret.value.blocks, bi, si)
           s == IF b = bi THEN si ELSE 1
       IN  /\ out' = Append(out, file_record(sop_ret.value.blocks[b].items[s]))
           /\ bi' = b
           /\ si' = s + 1
    /\ UNCHANGED <<pc, fp, filename, fp_text, fulltext, sop_ret, histVars, preVars, blockVars>>

\* the loops end: StopIteration
Exhausted ==
    /\ pc = "walk"
    /\ next_block(sop_ret.value.blocks, bi, si) = 0
    /\ pc' = "exhausted"
    /\ UNCHANGED <<fp, filename, fp_text, fulltext, sop_ret, bi, si, out,
                   histVars, preVars, blockVars>>

NextSop == ParseSop \/ YieldRecord \/ Exhausted

SpecSop == InitSop /\ [][NextSop]_vars

-----------------------------------------------------------------------------
(* The claims.                                                             *)

\* s with the characters of `chars` removed from its start only
lstrip_only(s, chars) ==
    LET keep == {i \in 1..Len(s) : s[i] \notin chars}
    IN  IF keep = {} THEN <<>>
        ELSE SubSeq(s, CHOOSE i \in keep : \A j \in keep : i <= j, Len(s))

\* s ends with the literal text suffix
ends_with(s, suffix) ==
    Len(s) >= Len(suffix) /\ SubSeq(s, Len(s) - Len(suffix) + 1, Len(s)) = suffix

is_attr_line(line) == startswith(line, <<"-", " ">>)

is_header_line(line) == ~is_attr_line(line) /\ startswith(line, <<"#", "#", " ">>)

is_cont_line(line) == ~is_attr_line(line) /\ ~startswith(line, <<"#", "#", " ">>)

\* the name a subsection header declares
declared_name(line) == strip(SubSeq(line, 4, Len(line)), Whitespace)

\* C1: parse_sop accepts exactly one of fp and filename: with fp alone it parses
\* the handle's text, with filename alone it opens and parses the file, and with
\* both or neither it raises the ValueError of line 150 and reads nothing.
C1_ExactlyOneInput ==
    pc # "start" =>
        /\ (fp # None /\ filename = None) =>
                (fulltext = Bound(fp_text) /\ sop_ret.at # 150)
        /\ (fp = None /\ filename # None) =>
                (fulltext = Bound(FileText) /\ sop_ret.at # 150)
        /\ ((fp = None) = (filename = None)) =>
                (sop_ret.exc = "ValueError" /\ sop_ret.at = 150 /\ fulltext = Unbound)

\* C2: once the loop over the body lines of a process block has ended without an
\* error, parse_block raises ParseException exactly when some kept subsection has
\* Type "file list" and a name that does not end with the literal "_files.txt".
C2_FileListSuffix ==
    (pc = "done" /\ block_ret.at \in {0, 105}) =>
        (block_ret.exc = "ParseException"
            <=> \E i \in 1..Len(subsections) :
                    /\ <<"T", "y", "p", "e">> \in DOMAIN subsections[i].attributes
                    /\ subsections[i].attributes[<<"T", "y", "p", "e">>] = <<"f", "i", "l", "e", " ", "l", "i", "s", "t">>
                    /\ ~ends_with(subsections[i].name, <<"_", "f", "i", "l", "e", "s", ".", "t", "x", "t">>))

\* the kept subsections of the process blocks, in document order
RECURSIVE kept_subsections(_)
kept_subsections(blocks) ==
    IF blocks = <<>> THEN <<>>
    ELSE (IF Head(blocks).type \in {<<"A", "n", "a", "l", "y", "s", "i", "s">>, <<"Q", "u", "a", "l", "i", "t", "y", " ", "c", "o", "n", "t", "r", "o", "l">>}
          THEN Head(blocks).items ELSE <<>>) \o kept_subsections(Tail(blocks))

\* C3: extract_filenames yields one record per kept subsection of every process
\* block and none for other blocks, in document order; the record carries the
\* subsection's name, its own Location or "." and its own Format or "".
C3_OneRecordPerSubsection ==
    pc \in {"walk", "exhausted"} =>
        LET kept == kept_subsections(sop_ret.value.blocks)
        IN  /\ Len(out) <= Len(kept)
            /\ pc = "exhausted" => Len(out) = Len(kept)
            /\ \A k \in 1..Len(out) :
                /\ out[k].name = kept[k].name
                /\ out[k].location = (IF <<"L", "o", "c", "a", "t", "i", "o", "n">> \in DOMAIN kept[k].attributes
                                      THEN kept[k].attributes[<<"L", "o", "c", "a", "t", "i", "o", "n">>] ELSE <<".">>)
                /\ out[k].format = (IF <<"F", "o", "r", "m", "a", "t">> \in DOMAIN kept[k].attributes
                                    THEN kept[k].attributes[<<"F", "o", "r", "m", "a", "t">>] ELSE <<>>)

\* C3 witness: a document with a free-text block between two process blocks has
\* been walked to the end: three records, the second from a subsection with no
\* attribute of its own in a block that has a Location, the third from the later
\* block.
C3_Witness ==
    /\ pc = "exhausted"
    /\ Len(out) = 3
    /\ Len(sop_ret.value.blocks) = 3
    /\ sop_ret.value.blocks[2].type = <<"I", "n", "t", "r", "o", "d", "u", "c", "t", "i", "o", "n">>
    /\ <<"L", "o", "c", "a", "t", "i", "o", "n">> \in DOMAIN sop_ret.value.blocks[1].attributes
    /\ out[1] = [name |-> <<"f">>, location |-> <<"r">>, format |-> <<"t">>]
    /\ out[2] = [name |-> <<"g">>, location |-> <<".">>, format |-> <<>>]
    /\ out[3].name = <<"h">>

\* C4: no subsection of the list has a name that begins with "Not uploaded:", and
\* the list holds one subsection for each header line read whose declared name
\* does not begin with "Not uploaded:" (such a header adds nothing).
C4_NotUploadedDiscarded ==
    /\ \A i \in 1..Len(subsections) : ~startswith(subsections[i].name, <<"N", "o", "t", " ", "u", "p", "l", "o", "a", "d", "e", "d", ":">>)
    /\ Len(subsections) =
         Cardinality({i \in 1..Len(lines) :
                        /\ is_header_line(lines[i])
                        /\ ~startswith(declared_name(lines[i]), <<"N", "o", "t", " ", "u", "p", "l", "o", "a", "d", "e", "d", ":">>)})

\* C5: for a line "- <version>;<date>;<description>" with exactly two ';',
\* format_history returns the three ';'-separated parts of the line with only its
\* leading '-' and ' ' removed; for a line whose number of parts is not 3 it raises
\* ParseException.
C5_HistoryParts ==
    pc = "done" =>
        LET body == lstrip_only(hist_line, {"-", " "})
            parts == split(body, ";", Len(body))
        IN  /\ (startswith(hist_line, <<"-", " ">>) /\ Len(parts) = 3) =>
                    /\ hist_ret.exc = "none"
                    /\ hist_ret.value = [version |-> parts[1], date |-> parts[2],
                                         description |-> parts[3]]
            /\ Len(parts) # 3 => hist_ret.exc = "ParseException"

\* the key and the value that a preamble line "# key: value" declares
declared_key(line) ==
    strip(SubSeq(line, 3, find(line, ":", 1) - 1), Whitespace)

declared_value(line) ==
    strip(SubSeq(line, find(line, ":", 1) + 1, Len(line)), Whitespace)

\* C6: for a preamble whose lines all have the form "# key: value", the mapping
\* holds exactly the declared keys, and under each the value of the last line that
\* declares it: the text behind the first colon with only surrounding whitespace
\* removed.
C6_PreambleMapping ==
    LET ls == split_lines(segment)
    IN  (/\ pc = "done"
         /\ \A i \in 1..Len(ls) : startswith(ls[i], <<"#", " ">>) /\ find(ls[i], ":", 1) > 0)
        => /\ meta_ret.exc = "none"
           /\ DOMAIN meta_ret.value = {declared_key(ls[i]) : i \in 1..Len(ls)}
           /\ \A i \in 1..Len(ls) :
                (\A j \in (i + 1)..Len(ls) : declared_key(ls[j]) # declared_key(ls[i]))
                    => meta_ret.value[declared_key(ls[i])] = declared_value(ls[i])

\* C7: when the text read holds, after comment stripping, nothing but whitespace,
\* parse_sop raises ParseException.
C7_EmptyDocument ==
    (/\ pc # "start"
     /\ fulltext # Unbound
     /\ \A i \in 1..Len(strip_comments(fulltext[1])) :
            strip_comments(fulltext[1])[i] \in Whitespace)
    => sop_ret.exc = "ParseException"

\* C8: for every text read from a handle, parse_sop returns a Document or raises
\* ParseException, and no other kind of error.
C8_OnlyParseException ==
    (pc # "start" /\ fulltext = Bound(fp_text)) => sop_ret.exc \in {"none", "ParseException"}

\* a continuation line has just been read, and between it and the header that
\* opened the current subsection there is no attribute line
cont_after_header(ls) ==
    /\ ls # <<>>
    /\ is_cont_line(ls[Len(ls)])
    /\ \E h \in 1..(Len(ls) - 1) :
        /\ is_header_line(ls[h]) /\ ~startswith(ls[h], <<"#", "#", " ", "N", "o", "t", " ", "u", "p", "l", "o", "a", "d", "e", "d", ":">>)
        /\ \A k \in (h + 1)..(Len(ls) - 1) : ~is_attr_line(ls[k])

\* C9: a continuation line read after a subsection header and before that
\* subsection's first attribute line raises ParseException and changes no
\* attribute declared earlier, in the block or in a previous subsection.
C9_HeaderResetsAttribute ==
    [][(lines' # lines /\ cont_after_header(lines'))
        => (/\ block_ret'.exc = "ParseException"
            /\ attributes' = attributes
            /\ subsections' = subsections)]_vars

\* C10: a continuation line read before any attribute line of the block raises
\* ParseException, whose message names the block type, the block name and the
\* line.
C10_ContinuationBeforeAttribute ==
    (/\ lines # <<>>
     /\ is_cont_line(lines[Len(lines)])
     /\ \A k \in 1..(Len(lines) - 1) : ~is_attr_line(lines[k]))
    => /\ block_ret.exc = "ParseException"
       /\ block_ret.args = <<block_type, block_name, lines[Len(lines)]>>

====
